---- MODULE Spec2Model ----
\* JobApplicationAutofill (src/job_application_autofill.py): the command loop,
\* fill_all_fields with its handlers for text inputs, checkboxes, drop-downs
\* and radio groups, the answer history and previous/next navigation,
\* get_field_label and levenshtein_distance; OllamaInterface.generate
\* (src/model_interface.py).
EXTENDS Integers, Sequences, FiniteSets, TLC

\* ---------------------------------------------------------------- bounds
\* Cap on the length of one label's history (the source has no cap).
MaxHist == 2

\* Cap on the length of the strings levenshtein_distance is called with.
MaxLen == 3

\* Cap on the generation requests of one OllamaInterface.generate call (the
\* source has no cap).
MaxRequests == 4

\* Cap on the iterations of the sampling loop of _custom_generation_method (the
\* source has no cap).
MaxSampled == 33

\* Labels get_field_label can resolve to, and texts the model backend returns.
Labels == {"L1", "L2"}
Answers == {"a", "b"}

\* ---------------------------------------------------------------- texts
\* Python's None, as an attribute that is not set or a call without a result.
None == "<None>"

\* `not x` for a text or None.
Falsy(t) == t = None \/ t = ""

\* A text stands for its sequence of characters.
Chars(t) ==
    CASE t = "" -> <<>>
      [] t = " " -> <<" ">>
      [] t = "a" -> <<"a">>
      [] t = "b" -> <<"b">>
      [] t = "L1" -> <<"L", "1">>
      [] t = "L2" -> <<"L", "2">>
      [] t = "F" -> <<"F">>
      [] t = " F " -> <<" ", "F", " ">>
      [] t = "A" -> <<"A">>
      [] t = " A " -> <<" ", "A", " ">>
      [] t = "P" -> <<"P">>
      [] t = " P " -> <<" ", "P", " ">>
      [] t = "S" -> <<"S">>
      [] t = " S " -> <<" ", "S", " ">>
      [] t = "aria" -> <<"a", "r", "i", "a">>
      [] t = "ph" -> <<"p", "h">>
      [] t = "n" -> <<"n">>
      [] t = "Yes" -> <<"Y", "e", "s">>
      [] t = "No" -> <<"N", "o">>
      [] t = "y" -> <<"y">>
      [] t = " TRUE " -> <<" ", "T", "R", "U", "E", " ">>
      [] t = "TRUE" -> <<"T", "R", "U", "E">>
      [] t = "maybe" -> <<"m", "a", "y", "b", "e">>
      [] t = "yes" -> <<"y", "e", "s">>
      [] t = "true" -> <<"t", "r", "u", "e">>
      [] t = "1" -> <<"1">>
      [] t = "on" -> <<"o", "n">>
      [] t = "no" -> <<"n", "o">>
      [] t = "false" -> <<"f", "a", "l", "s", "e">>
      [] t = "0" -> <<"0">>
      [] t = "off" -> <<"o", "f", "f">>
      [] t = "United States" ->
            <<"U", "n", "i", "t", "e", "d", " ", "S", "t", "a", "t", "e", "s">>
      [] t = "Unite States" ->
            <<"U", "n", "i", "t", "e", " ", "S", "t", "a", "t", "e", "s">>
      [] t = "Canada" -> <<"C", "a", "n", "a", "d", "a">>
      [] t = "Other" -> <<"O", "t", "h", "e", "r">>
      [] t = "cat" -> <<"c", "a", "t">>
      [] t = "cot" -> <<"c", "o", "t">>
      [] t = "cut" -> <<"c", "u", "t">>
      [] t = "Name *" -> <<"N", "a", "m", "e", " ", "*">>
      [] t = "Why us?" -> <<"W", "h", "y", " ", "u", "s", "?">>
      [] t = "Why us? *" -> <<"W", "h", "y", " ", "u", "s", "?", " ", "*">>
      [] t = "Unknown field" ->
            <<"U", "n", "k", "n", "o", "w", "n", " ", "f", "i", "e", "l", "d">>

\* The texts of the pages and backends modelled.
Texts ==
    {"", " ", "a", "b", "L1", "L2", "F", " F ", "A", " A ", "P", " P ", "S", " S ",
     "aria", "ph", "n", "Unknown field", "Yes", "No", "y", " TRUE ", "TRUE", "maybe",
     "yes", "true", "1", "on", "no", "false", "0", "off",
     "United States", "Unite States", "Canada", "Other", "cat", "cot", "cut"}

\* The text that has the characters cs.
Str(cs) == CHOOSE t \in Texts : Chars(t) = cs

UpperCase ==
    <<"A", "B", "C", "D", "E", "F", "G", "H", "I", "J", "K", "L", "M",
      "N", "O", "P", "Q", "R", "S", "T", "U", "V", "W", "X", "Y", "Z">>
LowerCase ==
    <<"a", "b", "c", "d", "e", "f", "g", "h", "i", "j", "k", "l", "m",
      "n", "o", "p", "q", "r", "s", "t", "u", "v", "w", "x", "y", "z">>

\* str.lower(), on a character sequence.
Lower(cs) ==
    [k \in 1..Len(cs) |->
        IF \E n \in 1..Len(UpperCase) : UpperCase[n] = cs[k]
        THEN LowerCase[CHOOSE n \in 1..Len(UpperCase) : UpperCase[n] = cs[k]]
        ELSE cs[k]]

Whitespace == {" ", "\t", "\n"}

\* str.strip(), on a character sequence.
Strip(cs) ==
    LET kept == {k \in 1..Len(cs) : cs[k] \notin Whitespace}
    IN  IF kept = {}
        THEN <<>>
        ELSE LET first == CHOOSE k \in kept : \A m \in kept : k <= m
                 last == CHOOSE k \in kept : \A m \in kept : k >= m
             IN  SubSeq(cs, first, last)

Min(a, b) == IF a <= b THEN a ELSE b

\* Variant: a substitution costs one also when the characters agree.
SubstitutionCostAlways(c1, c2) == 1

\* (c1 != c2) as the integer Python adds.
SubstitutionCost(c1, c2) == IF c1 # c2 THEN 1 ELSE 0

\* The inner loop over s2: current_row from previous_row and the character c1.
RECURSIVE CurrentRow(_, _, _, _)
CurrentRow(previous_row, c1, s2, current_row) ==
    LET j == Len(current_row)
    IN  IF j > Len(s2)
        THEN current_row
        ELSE LET insertions == previous_row[j + 1] + 1
                 deletions == current_row[j] + 1
                 substitutions == previous_row[j] + SubstitutionCost(c1, s2[j])
             IN  CurrentRow(previous_row, c1, s2,
                            Append(current_row,
                                   Min(insertions, Min(deletions, substitutions))))

\* The outer loop over s1, from its i-th character on; previous_row[-1] at the end.
RECURSIVE LastRow(_, _, _, _)
LastRow(s1, s2, i, previous_row) ==
    IF i > Len(s1)
    THEN previous_row[Len(previous_row)]
    ELSE LastRow(s1, s2, i + 1, CurrentRow(previous_row, s1[i], s2, <<i>>))

RECURSIVE levenshtein_distance(_, _)
levenshtein_distance(s1, s2) ==
    IF Len(s1) < Len(s2)
    THEN levenshtein_distance(s2, s1)
    ELSE IF Len(s2) = 0
    THEN Len(s1)
    ELSE LastRow(s1, s2, 1, [j \in 1..(Len(s2) + 1) |-> j - 1])

\* An element as the markup and the page accessor report it: tag name, type,
\* id, name, value, aria-label and placeholder attributes (None: not set),
\* is_displayed(), is_enabled(), the visible texts of a select's options, and
\* the text of the label element each lookup of get_field_label finds (None:
\* the lookup raises NoSuchElementException). A text input with an id, whose
\* nearest preceding label reads `label`:
Field(label) ==
    [tag |-> "input", type |-> "text", id |-> "x", name |-> None,
     displayed |-> TRUE, enabled |-> TRUE, value_attribute |-> None, options |-> <<>>,
     label_for |-> None, ancestor_label |-> None, preceding_label |-> label,
     sibling_label |-> None, aria_label |-> None, placeholder |-> None]
Hidden(label) == [Field(label) EXCEPT !.displayed = FALSE]
Disabled(label) == [Field(label) EXCEPT !.enabled = FALSE]
FileInput(label) == [Field(label) EXCEPT !.type = "file"]
Unaddressed(label) == [Field(label) EXCEPT !.id = None]

\* A checkbox, a drop-down with the given option texts, and a radio button of
\* the group `name` with the given value attribute.
Checkbox(label) == [Field(label) EXCEPT !.type = "checkbox"]
Select(label, options) ==
    [Field(label) EXCEPT !.tag = "select", !.type = "select-one", !.options = options]
Radio(name, value_attribute, label) ==
    [Field(label) EXCEPT !.type = "radio", !.name = name,
                         !.value_attribute = value_attribute]
Invisible(element) == [element EXCEPT !.displayed = FALSE]
Greyed(element) == [element EXCEPT !.enabled = FALSE]

\* Ids are unique in a page: the i-th element that has an id has the i-th id,
\* so find_element(By.ID, ...) finds the element the markup was extracted from.
ElementIds == <<"x", "y", "z">>
Numbered(elements) ==
    [i \in 1..Len(elements) |->
        IF elements[i].id = None
        THEN elements[i]
        ELSE [elements[i] EXCEPT !.id = ElementIds[i]]]

\* The forms the browser may show, elements in document order.
Forms ==
    { Numbered(elements) : elements \in
        { <<Field("L1"), Field("L1")>>,
          <<Field("L1"), Field("L2")>>,
          <<Hidden("L1"), Field("L1")>>,
          <<Field("L2"), Disabled("L2")>>,
          <<FileInput("L1"), Field("L1")>>,
          <<Unaddressed("L2"), Field("L2")>>,
          <<Field("L1"), Hidden("L2"), Field("L1")>> } }

\* The forms with checkboxes, drop-downs and radio groups.
WidgetForms ==
    { Numbered(elements) : elements \in
        { <<Checkbox("L1"), Field("L2")>>,
          <<Select("L1", <<"United States", "Canada", "Other">>)>>,
          <<Select("L2", <<"cat", "cot">>), Select("L1", <<>>)>>,
          <<Radio("g", "yes", "Yes"), Radio("g", "no", "No")>>,
          <<Invisible(Radio("g", "yes", "Yes")), Invisible(Radio("g", "no", "No"))>>,
          <<Radio("g", "yes", "Yes"), Greyed(Radio("g", "no", "No"))>>,
          <<Radio(None, "yes", "Yes"), Invisible(Checkbox("L1")),
            Greyed(Select("L2", <<"cat", "cot">>))>> } }

\* The texts the backend answers a prompt for the element with.
CheckboxAnswers == {"Yes", " TRUE ", "no", "maybe"}
SelectAnswers == {"Unite States", "cut"}
RadioAnswers == {"Yes", "no", "y"}
AnswersFor(element) ==
    IF element.tag = "select" THEN SelectAnswers
    ELSE IF element.type = "checkbox" THEN CheckboxAnswers
    ELSE IF element.type = "radio" THEN RadioAnswers
    ELSE Answers

\* Where a page-accessor or backend call raises during change_answer.
NavFaults == {"none", "session", "label", "generate", "clear", "send_keys"}
\* Where a call raises while fill_all_fields processes one element.
FieldFaults == {"none", "lookup", "label", "generate", "clear", "send_keys"}

\* The choices a user enters at "Enter choice (1-5): ", after any invalid ones.
MethodChoices == {"1", "5"}

VARIABLES
    pc,                          \* position of run(): "loop", "fill", "exited", "crashed"
    cmd,                         \* the command read last by run()
    msg,                         \* the diagnostic printed last
    form,                        \* the page: sequence of elements in document order
    value,                       \* displayed value of each element
    active,                      \* index of the active element, as change_answer read it last
    answer_history,              \* label -> sequence of answers (keys: labels recorded)
    current_application_context, \* sequence of <<label, answer>>
    config,                      \* self.config
    config_file,                 \* what config.json holds
    gen_calls,                   \* model-backend calls the current command has made
    current_index,               \* local current_index of the current command (-1 while unset)
    fill_log,                    \* outcome per element of the current command's fill pass
    last_response,               \* text query_model returned to the current step (None: no text)
    checked,                     \* is_selected() of each element (checkboxes, radios)
    clicks,                      \* click() calls each element took in the current fill pass
    selected,                    \* index of the option a select shows (0: as the page loaded it)
    call                         \* the function call under study in the function-level specifications

vars == <<pc, cmd, msg, form, value, active, answer_history,
          current_application_context, config, config_file, gen_calls,
          current_index, fill_log, last_response, checked, clicks, selected, call>>

\* No function call is under study: the value of `call` while run() executes.
NoCall == [fn |-> "none"]

\* ---------------------------------------------------------------- helpers
Max(a, b) == IF a >= b THEN a ELSE b

\* Python subscript h[i] for i >= 0 (sequences here are 1-based).
At(h, i) == h[i + 1]

\* list.index(v) if v in list else -1: the FIRST position holding v.
CurrentIndex(h, v) ==
    IF \E i \in 1..Len(h) : h[i] = v
    THEN (CHOOSE i \in 1..Len(h) : h[i] = v /\ \A j \in 1..(i - 1) : h[j] # v) - 1
    ELSE -1

\* str.strip() of every text, tabulated.
Stripped == [t \in Texts |-> Str(Strip(Chars(t)))]

\* label.text.strip() of the label element a lookup found; "" stands for a
\* lookup that raised NoSuchElementException, which falls through like "".
LabelText(label) == IF label = None THEN "" ELSE Stripped[label]

\* Variant: the chain of attributes ends without the sentinel.
FallbackWithoutSentinel(element) ==
    IF ~Falsy(element.aria_label) THEN element.aria_label
    ELSE IF ~Falsy(element.placeholder) THEN element.placeholder
    ELSE element.name

\* aria-label or placeholder or name or "Unknown field"
Fallback(element) ==
    IF ~Falsy(element.aria_label) THEN element.aria_label
    ELSE IF ~Falsy(element.placeholder) THEN element.placeholder
    ELSE IF ~Falsy(element.name) THEN element.name
    ELSE "Unknown field"

\* Methods 1 to 4 return the stripped text of the label they find if it is
\* not empty (method 1 runs only for an element with an id); then the fallback.
get_field_label(element) ==
    LET by_id == IF Falsy(element.id) THEN "" ELSE LabelText(element.label_for)
    IN  IF by_id # "" THEN by_id
        ELSE LET ancestor == LabelText(element.ancestor_label)
             IN  IF ancestor # "" THEN ancestor
                 ELSE LET preceding == LabelText(element.preceding_label)
                      IN  IF preceding # "" THEN preceding
                          ELSE LET sibling == LabelText(element.sibling_label)
                               IN  IF sibling # "" THEN sibling
                                   ELSE Fallback(element)

\* h is a prefix of g.
IsPrefix(h, g) == Len(h) <= Len(g) /\ \A i \in 1..Len(h) : h[i] = g[i]

\* Variant: the entry is created empty, the response is not stored.
RecordAnswerEmpty(h, label, response) ==
    [l \in (DOMAIN h) \cup {label} |-> IF l = label THEN <<>> ELSE h[l]]

\* self.answer_history[label] = [response]
RecordAnswer(h, label, response) ==
    [l \in (DOMAIN h) \cup {label} |-> IF l = label THEN <<response>> ELSE h[l]]

\* An exception nobody catches leaves run(): the process ends with a traceback.
Raise == pc' = "crashed" /\ msg' = "traceback"

\* ---------------------------------------------------------------- Init
\* run() reached its loop: __init__ ran, set_model chose the HuggingFace
\* backend and saved the configuration, the browser shows a fresh form.
Init ==
    /\ pc = "loop"
    /\ cmd = ""
    /\ msg = "commands"
    /\ form \in Forms
    /\ value = [i \in 1..Len(form) |-> ""]
    /\ active = 1
    /\ answer_history = <<>>
    /\ current_application_context = <<>>
    /\ config = [model_type |-> "huggingface", generation_method |-> "greedy"]
    /\ config_file = [model_type |-> "huggingface", generation_method |-> "greedy"]
    /\ gen_calls = 0
    /\ current_index = -1
    /\ fill_log = <<>>
    /\ last_response = None
    /\ checked = [i \in 1..Len(form) |-> FALSE]
    /\ clicks = [i \in 1..Len(form) |-> 0]
    /\ selected = [i \in 1..Len(form) |-> 0]
    /\ call = NoCall

\* ---------------------------------------------------------------- commands
\* Variant: the answer history is emptied together with the context.
new_application_forgets ==
    /\ pc = "loop"
    /\ UNCHANGED <<checked, clicks, selected, call>>
    /\ cmd' = "n"
    /\ current_application_context' = <<>>
    /\ answer_history' = <<>>
    /\ msg' = "context_cleared"
    /\ gen_calls' = 0
    /\ last_response' = None
    /\ current_index' = -1
    /\ fill_log' = <<>>
    /\ UNCHANGED <<pc, form, value, active, config, config_file>>

\* self.current_application_context = []; print.
new_application ==
    /\ pc = "loop"
    /\ UNCHANGED <<checked, clicks, selected, call>>
    /\ cmd' = "n"
    /\ current_application_context' = <<>>
    /\ msg' = "context_cleared"
    /\ gen_calls' = 0
    /\ last_response' = None
    /\ current_index' = -1
    /\ fill_log' = <<>>
    /\ UNCHANGED <<pc, form, value, active, answer_history, config, config_file>>

\* ---------------------------------------------------------------- navigation
\* Variant: max(0, current_index), the step of one left out.
PreviousIndexStays(ci) == Max(0, ci)

\* new_index = max(0, current_index - 1)
PreviousIndex(ci) == Max(0, ci - 1)

\* Variant: the cursor does not advance.
NextIndexStays(ci) == Max(0, ci)

\* new_index = current_index + 1
NextIndex(ci) == ci + 1

\* Variant: the test on the direction is lost, "previous" at the end generates too.
NeedsGenerationAnyDirection(direction, h, ci) == ~(ci < Len(h) - 1)

\* The else-branch of "next": current_index < len(history) - 1 is false.
NeedsGeneration(direction, h, ci) ==
    direction # "previous" /\ ~(ci < Len(h) - 1)

\* current_element.clear(); current_element.send_keys(new_answer); print.
WriteAnswer(fault, new_answer) ==
    IF fault = "clear"
    THEN Raise /\ UNCHANGED value
    ELSE IF fault = "send_keys"
    THEN Raise /\ value' = [value EXCEPT ![active'] = ""]
    ELSE /\ value' = [value EXCEPT ![active'] = new_answer]
         /\ msg' = "answer_changed"
         /\ pc' = "loop"

\* previous, or next below the last index: reuse a stored answer.
StoredAnswer(direction, fault, label, ci) ==
    LET h == answer_history[label]
        new_index == IF direction = "previous" THEN PreviousIndex(ci) ELSE NextIndex(ci)
    IN  /\ UNCHANGED answer_history
        /\ gen_calls' = 0
        /\ last_response' = None
        /\ WriteAnswer(fault, At(h, new_index))

\* next at the end: query the model, append, write.
FreshAnswer(fault, label, response) ==
    IF fault = "generate"
    THEN /\ Raise
         /\ gen_calls' = 1
         /\ last_response' = None
         /\ UNCHANGED <<answer_history, value>>
    ELSE /\ Len(answer_history[label]) < MaxHist
         /\ answer_history' = [answer_history EXCEPT ![label] = Append(@, response)]
         /\ gen_calls' = 1
         /\ last_response' = response
         /\ WriteAnswer(fault, response)

\* "Current element is not visible or enabled. Cannot change answer."
NotInteractable ==
    /\ msg' = "not_visible_or_enabled"
    /\ gen_calls' = 0
    /\ last_response' = None
    /\ current_index' = -1
    /\ UNCHANGED <<pc, value, answer_history>>

\* Variant: a field without history gets a first answer generated.
NoHistoryGenerates ==
    \E response \in Answers :
        /\ answer_history' =
              RecordAnswer(answer_history, get_field_label(form[active']), response)
        /\ gen_calls' = 1
        /\ last_response' = response
        /\ current_index' = -1
        /\ value' = [value EXCEPT ![active'] = response]
        /\ msg' = "answer_changed"
        /\ pc' = "loop"

\* "No previous answers for this field."
NoHistory ==
    /\ msg' = "no_previous_answers"
    /\ gen_calls' = 0
    /\ last_response' = None
    /\ current_index' = -1
    /\ UNCHANGED <<pc, value, answer_history>>

change_answer(direction) ==
    /\ pc = "loop"
    /\ UNCHANGED <<checked, clicks, selected, call>>
    /\ cmd' = IF direction = "previous" THEN "p" ELSE "x"
    /\ fill_log' = <<>>
    /\ UNCHANGED <<form, current_application_context, config, config_file>>
    /\ \E element \in 1..Len(form), fault \in NavFaults, response \in Answers :
        /\ active' = element
        /\ LET current_element == form[element]
               label == get_field_label(current_element)
           IN
            IF fault = "session"
            THEN /\ Raise
                 /\ gen_calls' = 0
                 /\ last_response' = None
                 /\ current_index' = -1
                 /\ UNCHANGED <<value, answer_history>>
            ELSE IF ~current_element.displayed \/ ~current_element.enabled
            THEN NotInteractable
            ELSE IF fault = "label"
            THEN /\ Raise
                 /\ gen_calls' = 0
                 /\ last_response' = None
                 /\ current_index' = -1
                 /\ UNCHANGED <<value, answer_history>>
            ELSE IF label \in DOMAIN answer_history
            THEN LET ci == CurrentIndex(answer_history[label], value[element])
                 IN  /\ current_index' = ci
                     /\ IF NeedsGeneration(direction, answer_history[label], ci)
                        THEN FreshAnswer(fault, label, response)
                        ELSE StoredAnswer(direction, fault, label, ci)
            ELSE NoHistory

previous_answer == change_answer("previous")

next_answer == change_answer("next")

\* ---------------------------------------------------------------- fill_all_fields
\* The for loop moves to the next extracted element, or returns after the last.
Continue(i) == pc' = IF i = Len(form) THEN "loop" ELSE "fill"

\* Variant: the handler encloses the loop, so the first failure ends the pass.
CaughtErrorEndsPass(i) ==
    /\ msg' = "error_processing_element"
    /\ fill_log' = Append(fill_log, "error")
    /\ pc' = "loop"

\* except Exception as e: print("Error processing element ...")
CaughtError(i) ==
    /\ msg' = "error_processing_element"
    /\ fill_log' = Append(fill_log, "error")
    /\ Continue(i)

\* Variant: the backend is queried before the element is left out.
SkipElementAfterQuery(i, why) ==
    /\ fill_log' = Append(fill_log, why)
    /\ Continue(i)
    /\ last_response' = None
    /\ gen_calls' = gen_calls + 1
    /\ UNCHANGED <<value, answer_history, checked, clicks, selected>>

\* A `continue` of the loop body: nothing is generated or written.
SkipElement(i, why) ==
    /\ fill_log' = Append(fill_log, why)
    /\ Continue(i)
    /\ last_response' = None
    /\ UNCHANGED <<value, answer_history, gen_calls, checked, clicks, selected>>

\* The exception handler after a call that raised before query_model returned.
FailedBeforeResponse(i) ==
    /\ CaughtError(i)
    /\ last_response' = None
    /\ UNCHANGED <<value, answer_history, checked, clicks, selected>>

\* handle_text_input: element.clear(); element.send_keys(response).
handle_text_input(i, fault, response) ==
    /\ UNCHANGED <<checked, clicks, selected>>
    /\ IF fault = "clear"
       THEN CaughtError(i) /\ UNCHANGED value
       ELSE IF fault = "send_keys"
       THEN CaughtError(i) /\ value' = [value EXCEPT ![i] = ""]
       ELSE /\ value' = [value EXCEPT ![i] = response]
            /\ msg' = "field_filled"
            /\ fill_log' = Append(fill_log, "filled")
            /\ Continue(i)

\* The call element.click() on checkbox or radio button j; `group` holds the
\* radios of its name. On a hidden element the call raises, on a disabled one
\* it returns without effect.
Click(j, group) ==
    /\ clicks' = [clicks EXCEPT ![j] = @ + 1]
    /\ checked' = IF ~form[j].displayed \/ ~form[j].enabled
                  THEN checked
                  ELSE IF form[j].type = "radio"
                  THEN [k \in DOMAIN checked |->
                           IF k = j THEN TRUE ELSE IF k \in group THEN FALSE ELSE checked[k]]
                  ELSE [checked EXCEPT ![j] = ~@]

\* Variant: the click does not depend on is_selected().
MustClickAlways(is_selected, wanted) == TRUE

\* if not element.is_selected() / if element.is_selected()
MustClick(is_selected, wanted) == is_selected # wanted

CheckboxOn == {"yes", "true", "1", "on"}
CheckboxOff == {"no", "false", "0", "off"}

\* response.strip().lower()
Normalised(response) == Lower(Strip(Chars(response)))

handle_checkbox(i, response) ==
    LET response_lower == Normalised(response)
        on == \E t \in CheckboxOn : Chars(t) = response_lower
        off == \E t \in CheckboxOff : Chars(t) = response_lower
    IN  /\ UNCHANGED <<value, selected>>
        /\ IF (on \/ off) /\ MustClick(checked[i], on)
           THEN Click(i, {i})
           ELSE UNCHANGED <<checked, clicks>>
        /\ msg' = IF on THEN "checkbox_checked"
                  ELSE IF off THEN "checkbox_unchecked"
                  ELSE "invalid_checkbox_response"
        /\ fill_log' = Append(fill_log, "checkbox")
        /\ Continue(i)

\* min(options, key=...): the first option with the least distance.
BestOption(options, response_lower) ==
    CHOOSE k \in 1..Len(options) :
        /\ \A m \in 1..Len(options) :
              levenshtein_distance(options[k], response_lower)
                  <= levenshtein_distance(options[m], response_lower)
        /\ \A m \in 1..(k - 1) :
              levenshtein_distance(options[m], response_lower)
                  > levenshtein_distance(options[k], response_lower)

\* Select.select_by_visible_text(text): the options whose visible text is
\* exactly `text`; none raises NoSuchElementException.
VisibleTextMatches(element, text) ==
    {k \in 1..Len(element.options) : Chars(element.options[k]) = text}

handle_select(i, response) ==
    LET element == form[i]
        options == [k \in 1..Len(element.options) |-> Normalised(element.options[k])]
        response_lower == Normalised(response)
    IN  /\ UNCHANGED <<value, checked, clicks>>
        /\ IF Len(options) = 0
           THEN CaughtError(i) /\ UNCHANGED selected
           ELSE LET best_match == options[BestOption(options, response_lower)]
                    matches == VisibleTextMatches(element, best_match)
                IN  IF matches = {}
                    THEN CaughtError(i) /\ UNCHANGED selected
                    ELSE /\ selected' = [selected EXCEPT ![i] =
                                            CHOOSE k \in matches : \A m \in matches : k <= m]
                         /\ msg' = "select_filled"
                         /\ fill_log' = Append(fill_log, "select")
                         /\ Continue(i)

\* fill_field: by tag name and type attribute.
fill_field(i, fault, response) ==
    IF form[i].tag = "select"
    THEN handle_select(i, response)
    ELSE IF form[i].type = "checkbox"
    THEN handle_checkbox(i, response)
    ELSE handle_text_input(i, fault, response)

\* Variant: a radio with an equal score replaces the best match.
ImprovesOrTies(score, best_match_score) == score <= best_match_score

\* if score < best_match_score
Improves(score, best_match_score) == score < best_match_score

\* min(distance(value, response), distance(label, response)), all lowercased.
Score(radio, response) ==
    Min(levenshtein_distance(Lower(Chars(radio.value_attribute)), Lower(Chars(response))),
        levenshtein_distance(Lower(Chars(get_field_label(radio))), Lower(Chars(response))))

\* The loop over radio_group from position j on; best_match 0 is None, whose
\* score float("inf") every score is below.
RECURSIVE BestMatch(_, _, _, _, _)
BestMatch(radio_group, response, j, best_match, best_match_score) ==
    IF j > Len(radio_group)
    THEN best_match
    ELSE LET score == Score(form[radio_group[j]], response)
         IN  IF best_match = 0 \/ Improves(score, best_match_score)
             THEN BestMatch(radio_group, response, j + 1, radio_group[j], score)
             ELSE BestMatch(radio_group, response, j + 1, best_match, best_match_score)

\* find_elements(By.NAME, name): the elements of that name, in document order.
RECURSIVE ByName(_, _)
ByName(name, j) ==
    IF j > Len(form) THEN <<>>
    ELSE IF form[j].name = name THEN <<j>> \o ByName(name, j + 1)
    ELSE ByName(name, j + 1)

\* handle_radio_group(element_name), called for the radio input at position i.
\* A lookup fault is the group having left the page since the scan.
handle_radio_group(i, fault, response) ==
    LET name == form[i].name
        radio_group == IF fault = "lookup" THEN <<>> ELSE ByName(name, 1)
    IN  /\ UNCHANGED <<value, answer_history, selected>>
        /\ IF Falsy(name)
           THEN /\ fill_log' = Append(fill_log, "radio_without_name")
                /\ Continue(i)
                /\ last_response' = None
                /\ UNCHANGED <<msg, gen_calls, checked, clicks>>
           ELSE IF Len(radio_group) = 0
           THEN /\ msg' = "no_radio_buttons_found"
                /\ fill_log' = Append(fill_log, "no_radios")
                /\ Continue(i)
                /\ last_response' = None
                /\ UNCHANGED <<gen_calls, checked, clicks>>
           ELSE IF fault = "label"
           THEN /\ CaughtError(i)
                /\ last_response' = None
                /\ UNCHANGED <<gen_calls, checked, clicks>>
           ELSE IF fault = "generate"
           THEN /\ CaughtError(i)
                /\ gen_calls' = gen_calls + 1
                /\ last_response' = None
                /\ UNCHANGED <<checked, clicks>>
           ELSE LET best_match == BestMatch(radio_group, response, 1, 0, 0)
                IN  /\ gen_calls' = gen_calls + 1
                    /\ last_response' = response
                    /\ Click(best_match, {radio_group[k] : k \in 1..Len(radio_group)})
                    /\ IF form[best_match].displayed
                       THEN /\ msg' = "radio_group_filled"
                            /\ fill_log' = Append(fill_log, "radio")
                            /\ Continue(i)
                       ELSE CaughtError(i)

\* switch_to_latest_tab, get_form_html, extract_input_elements.
fill_all_fields ==
    /\ pc = "loop"
    /\ clicks' = [i \in 1..Len(form) |-> 0]
    /\ UNCHANGED <<checked, selected, call>>
    /\ cmd' = "f"
    /\ gen_calls' = 0
    /\ last_response' = None
    /\ fill_log' = <<>>
    /\ \E scan \in {"form", "none", "raise"} :
        IF scan = "raise"
        THEN Raise
        ELSE IF scan = "none"
        THEN pc' = "loop" /\ msg' = "error_getting_form_html"
        ELSE pc' = "fill" /\ msg' = "form_scanned"
    /\ current_index' = -1
    /\ UNCHANGED <<form, value, active, answer_history, current_application_context,
                   config, config_file>>

\* One iteration of the loop over input_elements.
fill_element ==
    /\ pc = "fill"
    /\ UNCHANGED <<cmd, form, active, current_application_context, config,
                   config_file, current_index, call>>
    /\ LET i == Len(fill_log) + 1
           element == form[i]
           label == get_field_label(element)
       IN  \E fault \in FieldFaults, response \in AnswersFor(element) :
            IF Falsy(element.id) /\ Falsy(element.name)
            THEN SkipElement(i, "no_id_or_name") /\ UNCHANGED msg
            ELSE IF element.tag = "input" /\ element.type = "radio"
            THEN handle_radio_group(i, fault, response)
            ELSE IF fault = "lookup"
            THEN FailedBeforeResponse(i) /\ UNCHANGED gen_calls
            ELSE IF ~element.displayed \/ ~element.enabled
            THEN SkipElement(i, "hidden_or_disabled") /\ msg' = "skipping_hidden_or_disabled"
            ELSE IF element.type = "file"
            THEN SkipElement(i, "file") /\ msg' = "skipping_file_upload"
            ELSE IF fault = "label"
            THEN FailedBeforeResponse(i) /\ UNCHANGED gen_calls
            ELSE IF fault = "generate"
            THEN FailedBeforeResponse(i) /\ gen_calls' = gen_calls + 1
            ELSE /\ gen_calls' = gen_calls + 1
                 /\ last_response' = response
                 /\ answer_history' = RecordAnswer(answer_history, label, response)
                 /\ fill_field(i, fault, response)

\* ---------------------------------------------------------------- configuration
\* case "1" ... case "5" of the match statement.
MethodOf(choice) ==
    CASE choice = "1" -> "greedy"
      [] choice = "2" -> "beam"
      [] choice = "3" -> "top_k"
      [] choice = "4" -> "top_p"
      [] choice = "5" -> "custom"

\* Every case of the match leaves the while loop by `break` (an invalid choice
\* re-prompts by `continue`), so the save_config() after the match never runs.
set_generation_method ==
    /\ pc = "loop"
    /\ UNCHANGED <<checked, clicks, selected, call>>
    /\ cmd' = "g"
    /\ gen_calls' = 0
    /\ last_response' = None
    /\ msg' = "choose_generation_method"
    /\ \E choice \in MethodChoices :
        config' = [config EXCEPT !.generation_method = MethodOf(choice)]
    /\ current_index' = -1
    /\ fill_log' = <<>>
    /\ UNCHANGED <<pc, form, value, active, answer_history,
                   current_application_context, config_file>>

\* save_config(): config.json takes the in-memory configuration.
save_config(c) == config_file' = c

\* Choice 1 sets model_type and calls _pull_ollama_model, which names the
\* module `ollama` that job_application_autofill.py never imports: NameError.
\* Choice 2 loads the HuggingFace model (which may raise) and saves the config.
set_model ==
    /\ pc = "loop"
    /\ UNCHANGED <<checked, clicks, selected, call>>
    /\ cmd' = "m"
    /\ gen_calls' = 0
    /\ last_response' = None
    /\ \E choice \in {"1", "2"}, loaded \in BOOLEAN :
        IF choice = "1"
        THEN /\ config' = [config EXCEPT !.model_type = "ollama"]
             /\ Raise
             /\ UNCHANGED config_file
        ELSE /\ config' = [config EXCEPT !.model_type = "huggingface"]
             /\ IF loaded
                THEN /\ save_config(config')
                     /\ msg' = "model_set"
                     /\ pc' = "loop"
                ELSE Raise /\ UNCHANGED config_file
    /\ current_index' = -1
    /\ fill_log' = <<>>
    /\ UNCHANGED <<form, value, active, answer_history, current_application_context>>

print_commands ==
    /\ pc = "loop"
    /\ UNCHANGED <<checked, clicks, selected, call>>
    /\ cmd' = "h"
    /\ gen_calls' = 0
    /\ last_response' = None
    /\ msg' = "commands"
    /\ current_index' = -1
    /\ fill_log' = <<>>
    /\ UNCHANGED <<pc, form, value, active, answer_history,
                   current_application_context, config, config_file>>

unknown_command ==
    /\ pc = "loop"
    /\ UNCHANGED <<checked, clicks, selected, call>>
    /\ cmd' = "?"
    /\ gen_calls' = 0
    /\ last_response' = None
    /\ msg' = "unknown_command"
    /\ current_index' = -1
    /\ fill_log' = <<>>
    /\ UNCHANGED <<pc, form, value, active, answer_history,
                   current_application_context, config, config_file>>

quit ==
    /\ pc = "loop"
    /\ UNCHANGED <<checked, clicks, selected, call>>
    /\ cmd' = "q"
    /\ pc' = "exited"
    /\ msg' = "exiting"
    /\ gen_calls' = 0
    /\ last_response' = None
    /\ current_index' = -1
    /\ fill_log' = <<>>
    /\ UNCHANGED <<form, value, active, answer_history, current_application_context,
                   config, config_file>>

\* KeyboardInterrupt at the prompt or inside a command: caught by run(), break.
keyboard_interrupt ==
    /\ pc \in {"loop", "fill"}
    /\ UNCHANGED <<checked, clicks, selected, call>>
    /\ pc' = "exited"
    /\ msg' = "interrupted"
    /\ cmd' = "^C"
    /\ gen_calls' = 0
    /\ last_response' = None
    /\ current_index' = -1
    /\ fill_log' = <<>>
    /\ UNCHANGED <<form, value, active, answer_history,
                   current_application_context, config, config_file>>

\* ---------------------------------------------------------------- specification
Next ==
    \/ new_application
    \/ fill_all_fields
    \/ fill_element
    \/ previous_answer
    \/ next_answer
    \/ set_model
    \/ set_generation_method
    \/ print_commands
    \/ unknown_command
    \/ quit
    \/ keyboard_interrupt

Spec == Init /\ [][Next]_vars

\* ---------------------------------------------------------------- function-level specifications
\* The object after __init__ and before run(): no browser page, no command.
Constructed ==
    /\ pc = "constructed"
    /\ cmd = ""
    /\ msg = ""
    /\ form = <<>>
    /\ value = <<>>
    /\ active = 0
    /\ answer_history = <<>>
    /\ current_application_context = <<>>
    /\ config = [model_type |-> "huggingface", generation_method |-> "greedy"]
    /\ config_file = [model_type |-> "huggingface", generation_method |-> "greedy"]
    /\ gen_calls = 0
    /\ current_index = -1
    /\ fill_log = <<>>
    /\ last_response = None
    /\ checked = <<>>
    /\ clicks = <<>>
    /\ selected = <<>>

\* Every variable but `call`.
state == <<pc, cmd, msg, form, value, active, answer_history,
           current_application_context, config, config_file, gen_calls,
           current_index, fill_log, last_response, checked, clicks, selected>>

\* The strings levenshtein_distance is called with, as character sequences.
Alphabet == {"a", "b"}
Strings == UNION {[1..n -> Alphabet] : n \in 0..MaxLen}

LevInit ==
    /\ Constructed
    /\ \E s1 \in Strings, s2 \in Strings :
        call = [fn |-> "levenshtein_distance", s1 |-> s1, s2 |-> s2,
                returned |-> FALSE, result |-> 0]

\* One call levenshtein_distance(s1, s2) runs to its return.
levenshtein_call ==
    /\ call.fn = "levenshtein_distance"
    /\ ~call.returned
    /\ call' = [call EXCEPT !.returned = TRUE,
                            !.result = levenshtein_distance(call.s1, call.s2)]
    /\ UNCHANGED state

LevNext == levenshtein_call

LevSpec == LevInit /\ [][LevNext]_vars

\* The elements get_field_label is called with: every lookup finds no label,
\* a blank one or one with text; every attribute is unset, blank or set.
LabelCases ==
    { [Field(None) EXCEPT !.id = id, !.name = name, !.label_for = label_for,
                          !.ancestor_label = ancestor_label,
                          !.preceding_label = preceding_label,
                          !.sibling_label = sibling_label,
                          !.aria_label = aria_label, !.placeholder = placeholder] :
        id \in {None, "x"}, name \in {None, "", "n"},
        label_for \in {None, " ", " F "}, ancestor_label \in {None, " ", " A "},
        preceding_label \in {None, " ", " P "}, sibling_label \in {None, " ", " S "},
        aria_label \in {None, "", " ", "aria"}, placeholder \in {None, " ", "ph"} }

LabelInit ==
    /\ Constructed
    /\ \E element \in LabelCases :
        call = [fn |-> "get_field_label", element |-> element,
                returned |-> FALSE, result |-> None]

\* One call get_field_label(element) runs to its return.
get_field_label_call ==
    /\ call.fn = "get_field_label"
    /\ ~call.returned
    /\ call' = [call EXCEPT !.returned = TRUE, !.result = get_field_label(call.element)]
    /\ UNCHANGED state

LabelNext == get_field_label_call

LabelSpec == LabelInit /\ [][LabelNext]_vars

\* ---------------------------------------------------------------- OllamaInterface.generate
\* One call generate(prompt) of the Ollama backend (src/model_interface.py).
\* The server at self.client's host has the model installed or not; the
\* registry knows the model name or not; ollama.pull, a call of the module's
\* default client, reaches the same server as self.client or another one.
Prompts == {"prompt 1", "prompt 2"}

OllamaInit ==
    /\ Constructed
    /\ \E prompt \in Prompts, installed \in BOOLEAN, in_registry \in BOOLEAN,
          same_host \in BOOLEAN :
        call = [fn |-> "generate", prompt |-> prompt, installed |-> installed,
                in_registry |-> in_registry, same_host |-> same_host,
                next |-> "generate", requests |-> 0, pulls |-> 0,
                returned |-> FALSE, raised |-> FALSE, result |-> None]

\* if e.status_code == 404: go on to ollama.pull, whatever came before.
NotFound(c) == [c EXCEPT !.requests = @ + 1, !.next = "pull"]

\* self.client.generate(model=..., prompt=...) and the except clauses: the
\* response, a ResponseError with status 404 or another status, or any other
\* exception (the server cannot be reached).
generate ==
    /\ call.fn = "generate"
    /\ ~call.returned /\ ~call.raised
    /\ call.next = "generate"
    /\ call.requests < MaxRequests
    /\ \E reply \in {"response", "status_404", "status_500", "unreachable"},
          response \in Answers :
        /\ reply \in {"response", "status_500"} => call.installed
        /\ reply = "status_404" => ~call.installed
        /\ call' = CASE reply = "response" ->
                         [call EXCEPT !.requests = @ + 1, !.returned = TRUE,
                                      !.result = response]
                     [] reply = "status_404" -> NotFound(call)
                     [] reply = "status_500" ->
                         [call EXCEPT !.requests = @ + 1, !.returned = TRUE,
                                      !.result = "Error generating with Ollama"]
                     [] reply = "unreachable" ->
                         [call EXCEPT !.requests = @ + 1, !.returned = TRUE,
                                      !.result = "Unexpected error in generate"]
    /\ UNCHANGED state

\* ollama.pull(self.model_name); return self.generate(prompt). The pull runs
\* inside the except clause: what it raises (the registry does not know the
\* name, the server cannot be reached) leaves generate.
pull ==
    /\ call.fn = "generate"
    /\ ~call.returned /\ ~call.raised
    /\ call.next = "pull"
    /\ \E reached \in BOOLEAN :
        call' = IF reached /\ call.in_registry
                THEN [call EXCEPT !.pulls = @ + 1, !.next = "generate",
                                  !.installed = @ \/ call.same_host]
                ELSE [call EXCEPT !.pulls = @ + 1, !.raised = TRUE]
    /\ UNCHANGED state

OllamaNext == generate \/ pull

OllamaSpec == OllamaInit /\ [][OllamaNext]_vars

\* ---------------------------------------------------------------- query_model, HuggingFaceInterface.generate
\* One call self.query_model(...) with the HuggingFace backend, from the call
\* in fill_all_fields, handle_radio_group or change_answer, for a field whose
\* label the caller has resolved; the call counts the tokens it generates.
Methods == {"greedy", "beam", "top_k", "top_p", "custom"}
CallSites == {"fill_all_fields", "handle_radio_group", "change_answer"}
QuestionLabels == {"L1", "Name *", "Why us?", "Why us? *"}

\* "max_new_tokens": 32 of generate_kwargs.
max_new_tokens == 32

\* The argument `element` of the call: each of the three callers writes
\* self.query_model(prompt), so the parameter keeps its default None.
ElementArgument(site) ==
    CASE site = "fill_all_fields" -> None
      [] site = "handle_radio_group" -> None
      [] site = "change_answer" -> None

\* str.strip("*"), on a character sequence.
StripAsterisks(cs) ==
    LET kept == {k \in 1..Len(cs) : cs[k] # "*"}
    IN  IF kept = {}
        THEN <<>>
        ELSE LET first == CHOOSE k \in kept : \A m \in kept : k <= m
                 last == CHOOSE k \in kept : \A m \in kept : k >= m
             IN  SubSeq(cs, first, last)

\* label.strip().strip("*").strip().endswith("?")
EndsWithQuestionMark(label) ==
    LET cs == Strip(StripAsterisks(Strip(Chars(label))))
    IN  Len(cs) > 0 /\ cs[Len(cs)] = "?"

QueryInit ==
    /\ pc = "constructed"
    /\ cmd = ""
    /\ msg = ""
    /\ form = <<>>
    /\ value = <<>>
    /\ active = 0
    /\ answer_history = <<>>
    /\ current_application_context = <<>>
    /\ config \in {[model_type |-> "huggingface", generation_method |-> m] : m \in Methods}
    /\ config_file = config
    /\ gen_calls = 0
    /\ current_index = -1
    /\ fill_log = <<>>
    /\ last_response = None
    /\ checked = <<>>
    /\ clicks = <<>>
    /\ selected = <<>>
    /\ \E site \in CallSites, label \in QuestionLabels :
        call = [fn |-> "query_model", site |-> site, label |-> label,
                next |-> "query_model", method |-> None, is_question |-> FALSE,
                temperature |-> None, new_tokens |-> 0, returned |-> FALSE]

\* query_model up to its call of self.model_interface.generate: the label is
\* looked up only when an element was passed, is_question only for a label.
query_model ==
    /\ call.fn = "query_model"
    /\ call.next = "query_model"
    /\ LET element == ElementArgument(call.site)
           label == IF element # None THEN call.label ELSE None
           is_question == IF Falsy(label) THEN FALSE ELSE EndsWithQuestionMark(label)
       IN  call' = [call EXCEPT !.method = config.generation_method,
                                !.is_question = is_question,
                                !.next = "generate"]
    /\ UNCHANGED state

\* The "temperature" the match statement puts into generate_kwargs: 0.7 for
\* the two sampling methods, none (the library default) for greedy and beam.
KwargsTemperature(method) ==
    IF method \in {"top_k", "top_p"} THEN "0.7" ELSE "default"

\* The head of _custom_generation_method.
CustomTemperature(is_question) == IF is_question THEN "1.5" ELSE "0.9"

\* HuggingFaceInterface.generate up to the generation itself: case "custom"
\* returns what _custom_generation_method returns, the other cases fall
\* through to self.model.generate with generate_kwargs.
HuggingFace_generate ==
    /\ call.fn = "query_model"
    /\ call.next = "generate"
    /\ call' = IF call.method = "custom"
               THEN [call EXCEPT !.temperature = CustomTemperature(call.is_question),
                                 !.next = "sample"]
               ELSE [call EXCEPT !.temperature = KwargsTemperature(call.method),
                                 !.next = "model_generate"]
    /\ UNCHANGED state

\* self.model.generate(**inputs, **generate_kwargs) and the decoding: the
\* library stops at the end-of-sequence token or after max_new_tokens tokens.
model_generate ==
    /\ call.fn = "query_model"
    /\ call.next = "model_generate"
    /\ \E n \in 0..max_new_tokens :
        call' = [call EXCEPT !.new_tokens = n, !.returned = TRUE, !.next = "done"]
    /\ UNCHANGED state

\* One iteration of `while True` in _custom_generation_method: a token is
\* sampled and appended; the method returns when it is the end-of-sequence
\* token and loops otherwise.
sample_token ==
    /\ call.fn = "query_model"
    /\ call.next = "sample"
    /\ call.new_tokens < MaxSampled
    /\ \E eos \in BOOLEAN :
        call' = IF eos
                THEN [call EXCEPT !.new_tokens = @ + 1, !.returned = TRUE,
                                  !.next = "done"]
                ELSE [call EXCEPT !.new_tokens = @ + 1]
    /\ UNCHANGED state

QueryNext == query_model \/ HuggingFace_generate \/ model_generate \/ sample_token

QuerySpec == QueryInit /\ [][QueryNext]_vars

\* ---------------------------------------------------------------- fill_all_fields on widgets
\* run() at its prompt with a page of checkboxes, drop-downs and radio groups;
\* a checkbox may be checked as the page loads.
WidgetInit ==
    /\ pc = "loop"
    /\ cmd = ""
    /\ msg = "commands"
    /\ form \in WidgetForms
    /\ value = [i \in 1..Len(form) |-> ""]
    /\ active = 1
    /\ answer_history = <<>>
    /\ current_application_context = <<>>
    /\ config = [model_type |-> "huggingface", generation_method |-> "greedy"]
    /\ config_file = [model_type |-> "huggingface", generation_method |-> "greedy"]
    /\ gen_calls = 0
    /\ current_index = -1
    /\ fill_log = <<>>
    /\ last_response = None
    /\ checked \in {c \in [1..Len(form) -> BOOLEAN] :
                       \A i \in 1..Len(form) : c[i] => form[i].type = "checkbox"}
    /\ clicks = [i \in 1..Len(form) |-> 0]
    /\ selected = [i \in 1..Len(form) |-> 0]
    /\ call = NoCall

\* The user enters "f" again and again.
WidgetNext == fill_all_fields \/ fill_element

WidgetSpec == WidgetInit /\ [][WidgetNext]_vars

\* ---------------------------------------------------------------- properties
\* The element is visible and enabled: change_answer goes past its first test.
Interactable(element) == element.displayed /\ element.enabled

Range(h) == {h[i] : i \in 1..Len(h)}

\* k is the 0-based index of the first occurrence of v in h.
FirstAt(h, v, k) == h[k + 1] = v /\ \A j \in 1..k : h[j] # v

\* The label of the element the current change_answer step acts on.
NavLabel == get_field_label(form[active'])

\* C1: the answer history is append-only: across every step, each label's
\* history in the later state has its history in the earlier state as a
\* prefix, and no label loses its entry.
HistoryAppendOnly ==
    [][\A l \in DOMAIN answer_history :
          /\ l \in DOMAIN answer_history'
          /\ IsPrefix(answer_history[l], answer_history'[l])]_vars

\* C2: previous_answer on a visible, enabled field whose label has a history,
\* when no page-accessor call raises, writes history[max(0, currentIndex - 1)]
\* into the field: the entry before the displayed one, or entry 0 when the
\* displayed value is entry 0 or is not in the history; the index stays within
\* 0..len-1 and never wraps to the end.
PreviousWritesClampedEntry ==
    [][(/\ previous_answer
        /\ pc' = "loop"
        /\ Interactable(form[active'])
        /\ NavLabel \in DOMAIN answer_history)
       => LET h == answer_history[NavLabel]
              v == value[active']
          IN  /\ Len(h) >= 1
              /\ v \notin Range(h) => current_index' = -1 /\ value'[active'] = h[1]
              /\ \A k \in 0..(Len(h) - 1) :
                    FirstAt(h, v, k) =>
                        /\ current_index' = k
                        /\ value'[active'] = IF k = 0 THEN h[1] ELSE h[k]]_vars

\* C2 witness: previous_answer ran on a field whose displayed value was not in
\* the history (index -1) and wrote entry 0 of a history of two entries.
PreviousClampedFromNotFound ==
    /\ cmd = "p"
    /\ msg = "answer_changed"
    /\ current_index = -1
    /\ get_field_label(form[active]) \in DOMAIN answer_history
    /\ Len(answer_history[get_field_label(form[active])]) = 2
    /\ value[active] = answer_history[get_field_label(form[active])][1]

\* C3: previous_answer never changes the answer history of any label and never
\* calls the model backend, whatever the page accessor does; and when the
\* displayed value is entry 0 and the command completes, every displayed value
\* is the same after it as before.
PreviousNeverGrowsHistory ==
    [][previous_answer =>
          /\ answer_history' = answer_history
          /\ gen_calls' = 0
          /\ (/\ pc' = "loop"
              /\ Interactable(form[active'])
              /\ NavLabel \in DOMAIN answer_history
              /\ answer_history[NavLabel][1] = value[active'])
             => value' = value]_vars

\* C3 witness: previous_answer ran at index 0 of a history of two entries.
PreviousAtIndexZero ==
    /\ cmd = "p"
    /\ msg = "answer_changed"
    /\ current_index = 0
    /\ gen_calls = 0
    /\ Len(answer_history[get_field_label(form[active])]) = 2
    /\ value[active] = answer_history[get_field_label(form[active])][1]

\* C4: next_answer on a visible, enabled field whose displayed value is the
\* LAST entry of its label's history makes exactly one backend call, appends
\* one entry and writes that entry into the field, also when the same answer
\* occurs more than once in the history.
NextAtLastEntryGenerates ==
    [][(/\ next_answer
        /\ pc' = "loop"
        /\ Interactable(form[active'])
        /\ NavLabel \in DOMAIN answer_history
        /\ answer_history[NavLabel][Len(answer_history[NavLabel])] = value[active'])
       => /\ gen_calls' = 1
          /\ Len(answer_history'[NavLabel]) = Len(answer_history[NavLabel]) + 1
          /\ IsPrefix(answer_history[NavLabel], answer_history'[NavLabel])
          /\ value'[active'] =
                answer_history'[NavLabel][Len(answer_history'[NavLabel])]]_vars

\* C5: next_answer on a visible, enabled field whose displayed value does not
\* occur in its label's non-empty history makes a backend call, appends the
\* fresh answer and writes it into the field.
NextOnUnmatchedValueGenerates ==
    [][(/\ next_answer
        /\ pc' = "loop"
        /\ Interactable(form[active'])
        /\ NavLabel \in DOMAIN answer_history
        /\ value[active'] \notin Range(answer_history[NavLabel]))
       => /\ gen_calls' = 1
          /\ answer_history'[NavLabel] =
                Append(answer_history[NavLabel], value'[active'])]_vars

\* C6: next_answer on a visible, enabled field whose displayed value is found
\* in the history at an index k strictly below the last index makes no backend
\* call and leaves every history unchanged, and, when no page-accessor call
\* raises, writes the stored entry at index k + 1 into the field.
NextBelowLastReusesStored ==
    [][(/\ next_answer
        /\ Interactable(form[active'])
        /\ NavLabel \in DOMAIN answer_history)
       => LET h == answer_history[NavLabel]
          IN  \A k \in 0..(Len(h) - 2) :
                FirstAt(h, value[active'], k) =>
                    /\ gen_calls' = 0
                    /\ answer_history' = answer_history
                    /\ pc' = "loop" => value'[active'] = h[k + 2]]_vars

\* C6 witness: next_answer moved from entry 0 to the stored entry 1 without a
\* backend call.
NextReusedStoredEntry ==
    /\ cmd = "x"
    /\ msg = "answer_changed"
    /\ current_index = 0
    /\ gen_calls = 0
    /\ Len(answer_history[get_field_label(form[active])]) = 2
    /\ value[active] = answer_history[get_field_label(form[active])][2]
    /\ answer_history[get_field_label(form[active])][1] # value[active]

\* C7: previous_answer and next_answer on a field whose label has no entry in
\* the answer history make no backend call and change neither any history nor
\* any displayed value; on a visible, enabled field, when the page accessor
\* does not raise, they print the no-history diagnostic.
NavigationWithoutHistoryIsNoOp ==
    [][((previous_answer \/ next_answer) /\ NavLabel \notin DOMAIN answer_history)
       => /\ gen_calls' = 0
          /\ answer_history' = answer_history
          /\ value' = value
          /\ (pc' = "loop" /\ Interactable(form[active']))
             => msg' = "no_previous_answers"]_vars

\* C7 witness: a navigation command reported that a visible, enabled field
\* has no history, while another label already has one.
NoHistoryReported ==
    /\ cmd \in {"p", "x"}
    /\ msg = "no_previous_answers"
    /\ Interactable(form[active])
    /\ get_field_label(form[active]) \notin DOMAIN answer_history
    /\ answer_history # <<>>

\* C8: in fill_all_fields every step of the loop over the extracted elements,
\* a failing one included, goes on to the next element in scan order, and the
\* step for the last element returns to the command loop; only a user
\* interrupt ends the pass early.
FieldFailureDoesNotAbortFill ==
    [][pc = "fill" =>
          \/ pc' = "exited" /\ cmd' = "^C"
          \/ /\ Len(fill_log') = Len(fill_log) + 1
             /\ pc' = IF Len(fill_log') = Len(form) THEN "loop" ELSE "fill"]_vars

\* C8 witness: a pass returned to the command loop after an element failed
\* and a later element was filled.
FilledAfterFailure ==
    /\ pc = "loop"
    /\ cmd = "f"
    /\ Len(fill_log) = Len(form)
    /\ \E i, j \in 1..Len(fill_log) :
          i < j /\ fill_log[i] = "error" /\ fill_log[j] = "filled"

\* C9: no command ends the command loop except quit and a user interrupt:
\* run() is at its prompt or inside a command, or it left the loop through
\* "q" or KeyboardInterrupt.
LoopEndsOnlyOnQuitOrInterrupt ==
    \/ pc \in {"loop", "fill"}
    \/ pc = "exited" /\ cmd \in {"q", "^C"}

\* C10: after fill_all_fields or next_answer writes answer A into a field
\* with label L, the pair (L, A) is the last element of the application
\* context.
ContextRecordsEveryFill ==
    [][/\ (pc = "fill" /\ pc' # "exited" /\ fill_log'[Len(fill_log')] = "filled")
          => LET i == Len(fill_log')
             IN  /\ current_application_context' # <<>>
                 /\ current_application_context'[Len(current_application_context')]
                      = <<get_field_label(form[i]), value'[i]>>
       /\ (next_answer /\ msg' = "answer_changed")
          => /\ current_application_context' # <<>>
             /\ current_application_context'[Len(current_application_context')]
                  = <<NavLabel, value'[active']>>]_vars

\* ---------------------------------------------------------------- properties of the helpers
\* The reference recurrence of the edit distance over insert, delete, substitute.
RECURSIVE EditDistance(_, _)
EditDistance(a, b) ==
    IF Len(a) = 0 THEN Len(b)
    ELSE IF Len(b) = 0 THEN Len(a)
    ELSE Min(EditDistance(Tail(a), b) + 1,
             Min(EditDistance(a, Tail(b)) + 1,
                 EditDistance(Tail(a), Tail(b)) + (IF Head(a) = Head(b) THEN 0 ELSE 1)))

\* C17: for all strings a, b up to MaxLen over Alphabet, what
\* levenshtein_distance(a, b) returns is the classic edit distance of a and b;
\* it equals levenshtein_distance(b, a), is 0 when a = b and len(a) when b is
\* empty.
LevenshteinIsEditDistance ==
    (call.fn = "levenshtein_distance" /\ call.returned)
        => /\ call.result = EditDistance(call.s1, call.s2)
           /\ call.result = levenshtein_distance(call.s2, call.s1)
           /\ (call.s1 = call.s2 => call.result = 0)
           /\ (call.s2 = <<>> => call.result = Len(call.s1))

\* A call returned 2 for two non-empty strings, the first the shorter one (the
\* function swapped them) and sharing a character with the second.
LevenshteinSwappedCall ==
    /\ call.fn = "levenshtein_distance"
    /\ call.returned
    /\ call.result = 2
    /\ call.s1 # <<>>
    /\ Len(call.s1) < Len(call.s2)
    /\ \E k \in 1..Len(call.s2) : call.s2[k] = call.s1[1]

\* What each strategy of get_field_label reads for the element, in the order of
\* the source (None: the strategy finds nothing).
StrategyValues(element) ==
    << IF Falsy(element.id) THEN None ELSE element.label_for,
       element.ancestor_label, element.preceding_label, element.sibling_label,
       element.aria_label, element.placeholder, element.name >>

\* The text has a character left after trimming whitespace.
NonBlank(t) == t # None /\ Strip(Chars(t)) # <<>>

\* C18: get_field_label returns the value of the first strategy, in the fixed
\* order of the seven strategies, whose value is non-empty after trimming: a
\* blank value never wins over a later strategy with non-blank text.
FirstNonBlankStrategyWins ==
    (call.fn = "get_field_label" /\ call.returned)
        => LET values == StrategyValues(call.element)
           IN  \A k \in 1..Len(values) :
                   (NonBlank(values[k]) /\ \A j \in 1..(k - 1) : ~NonBlank(values[j]))
                       => Strip(Chars(call.result)) = Strip(Chars(values[k]))

\* C19: every call of get_field_label returns a non-empty string, and for an
\* element without attributes and without label elements that string is
\* "Unknown field".
LabelIsNeverEmpty ==
    (call.fn = "get_field_label" /\ call.returned)
        => /\ call.result # None
           /\ call.result \in Texts
           /\ Len(Chars(call.result)) > 0
           /\ (\A k \in 1..7 : StrategyValues(call.element)[k] = None)
                  => call.result = "Unknown field"

\* A call for an element with no attribute and no label element returned.
SentinelReturned ==
    /\ call.fn = "get_field_label"
    /\ call.returned
    /\ call.element.id = None
    /\ \A k \in 1..7 : StrategyValues(call.element)[k] = None
    /\ call.result = "Unknown field"

\* ---------------------------------------------------------------- properties of the fill pass
\* The position in the form the current step of the fill pass works on.
FillIndex == Len(fill_log) + 1

\* The radio inputs of the form that carry a name, and the names they carry.
NamedRadios ==
    {j \in 1..Len(form) : form[j].type = "radio" /\ ~Falsy(form[j].name)}
GroupNames == {form[j].name : j \in NamedRadios}

RECURSIVE SumOver(_, _)
SumOver(f, S) ==
    IF S = {} THEN 0
    ELSE LET j == CHOOSE j \in S : TRUE IN f[j] + SumOver(f, S \ {j})

\* C11: during and after one fill pass the backend has been called at most once
\* per radio group (and once per other element), and the radios of one group
\* have taken at most one click together, however many radios the group has.
RadioGroupHandledOncePerPass ==
    (cmd = "f" /\ pc \in {"fill", "loop"})
        => /\ gen_calls <= Cardinality(GroupNames)
                              + Cardinality((1..Len(form)) \ NamedRadios)
           /\ \A g \in GroupNames :
                  SumOver(clicks, {j \in NamedRadios : form[j].name = g}) <= 1

\* C12: a step of the fill pass on an element that is not displayed or not
\* enabled, whatever its kind, calls no backend, writes no value, clicks
\* nothing and selects nothing.
HiddenOrDisabledIsSkipped ==
    [][(fill_element /\ (~form[FillIndex].displayed \/ ~form[FillIndex].enabled))
          => /\ gen_calls' = gen_calls
             /\ UNCHANGED <<value, checked, clicks, selected>>]_vars

\* C13: a step of the fill pass on an element without id and name, or on a
\* file input, calls no backend, leaves every history and every value; in the
\* form of a file input followed by a text input with id, the text input is
\* the one that takes the response.
FileAndUnaddressedNeverFilled ==
    [][fill_element
          => /\ ((Falsy(form[FillIndex].id) /\ Falsy(form[FillIndex].name))
                    \/ form[FillIndex].type = "file")
                 => /\ gen_calls' = gen_calls
                    /\ UNCHANGED <<value, answer_history, checked, clicks, selected>>
             /\ (form = Numbered(<<FileInput("L1"), Field("L1")>>)
                    /\ FillIndex = 2 /\ msg' = "field_filled")
                 => /\ value'[1] = value[1]
                    /\ last_response' \in Answers
                    /\ value'[2] = last_response']_vars

\* A pass over the file input and the text input ended with the text filled.
OnlyTextFieldFilled ==
    /\ form = Numbered(<<FileInput("L1"), Field("L1")>>)
    /\ pc = "loop"
    /\ fill_log = <<"file", "filled">>
    /\ value[1] = ""
    /\ value[2] \in Answers
    /\ gen_calls = 1
    /\ DOMAIN answer_history = {"L1"}

\* The step applied a response to the checkbox, drop-down or radio at FillIndex.
Applied(type) ==
    /\ fill_element
    /\ form[FillIndex].type = type
    /\ last_response' # None

\* C14: handle_checkbox with a response that, trimmed and lowercased, is one of
\* yes/true/1/on leaves the box checked, with one of no/false/0/off unchecked,
\* through one click if the state had to change and none otherwise; any other
\* response clicks nothing and leaves the state.
CheckboxClickedOnlyToChange ==
    [][Applied("checkbox")
          => LET i == FillIndex
                 r == Lower(Strip(Chars(last_response')))
                 on == r \in {Chars("yes"), Chars("true"), Chars("1"), Chars("on")}
                 off == r \in {Chars("no"), Chars("false"), Chars("0"), Chars("off")}
             IN  /\ on => checked'[i] /\ clicks'[i] = clicks[i] + (IF checked[i] THEN 0 ELSE 1)
                 /\ off => ~checked'[i] /\ clicks'[i] = clicks[i] + (IF checked[i] THEN 1 ELSE 0)
                 /\ (~on /\ ~off) => checked' = checked /\ clicks' = clicks]_vars

\* The response " TRUE " checked a box that was unchecked, by one click.
CheckboxCheckedByOneClick ==
    /\ \E i \in 1..Len(form) :
        /\ form[i].type = "checkbox"
        /\ fill_log # <<>>
        /\ Len(fill_log) = i
        /\ checked[i]
        /\ clicks[i] = 1
    /\ last_response = " TRUE "

\* The distance of the option's lowercase-trimmed text to the lowercase-trimmed response.
OptionDistance(option, response) ==
    levenshtein_distance(Lower(Strip(Chars(option))), Lower(Strip(Chars(response))))

\* C15: after handle_select the drop-down shows the first of its options whose
\* lowercase-trimmed text is at the least edit distance from the
\* lowercase-trimmed response.
SelectShowsClosestOption ==
    [][(Applied("select-one") /\ form[FillIndex].options # <<>>)
          => LET options == form[FillIndex].options
                 k == selected'[FillIndex]
             IN  /\ k \in 1..Len(options)
                 /\ \A m \in 1..Len(options) :
                        OptionDistance(options[k], last_response')
                            <= OptionDistance(options[m], last_response')
                 /\ \A m \in 1..(k - 1) :
                        OptionDistance(options[m], last_response')
                            > OptionDistance(options[k], last_response')]_vars

\* The score of radio j for the response.
RadioScore(j, response) ==
    Min(levenshtein_distance(Lower(Chars(form[j].value_attribute)), Lower(Chars(response))),
        levenshtein_distance(Lower(Chars(get_field_label(form[j]))), Lower(Chars(response))))

\* C16: handle_radio_group calls click() on exactly the radio of the group
\* with the smallest score, the first such radio on ties, and on no other
\* element; when no radio has the name it reports so, calls no backend and
\* clicks nothing.
RadioWithSmallestScoreClicked ==
    [][fill_element
          => /\ Applied("radio")
                 => LET group == {j \in 1..Len(form) : form[j].name = form[FillIndex].name}
                        best == CHOOSE j \in group :
                                    \A m \in group :
                                        /\ RadioScore(j, last_response') <= RadioScore(m, last_response')
                                        /\ m < j => RadioScore(m, last_response') > RadioScore(j, last_response')
                    IN  \A j \in 1..Len(form) :
                            clicks'[j] = clicks[j] + (IF j = best THEN 1 ELSE 0)
             /\ (form[FillIndex].type = "radio" /\ fill_log'[FillIndex] = "no_radios")
                 => /\ msg' = "no_radio_buttons_found"
                    /\ gen_calls' = gen_calls
                    /\ UNCHANGED <<checked, clicks>>]_vars

\* The response "y" is as far from "yes" as from "no": the first radio was clicked.
RadioTieWentToFirst ==
    /\ last_response = "y"
    /\ fill_log = <<"radio">>
    /\ form[1].value_attribute = "yes"
    /\ form[2].value_attribute = "no"
    /\ clicks = <<1, 0>>
    /\ checked = <<TRUE, FALSE>>

\* ---------------------------------------------------------------- properties of the backends
\* C20: one call of OllamaInterface.generate pulls the model at most once and
\* sends at most two generation requests: after a retry that fails there is
\* no further pull and no further request.
OllamaPullsAndRetriesOnce ==
    call.fn = "generate" => call.pulls <= 1 /\ call.requests <= 2

\* C21: generate of the Ollama backend never lets an exception out, and a call
\* that does not return the model's response returns the one text
\* "Error querying Ollama", which the application then writes as the answer.
OllamaDegradesToErrorString ==
    call.fn = "generate" =>
        /\ ~call.raised
        /\ call.returned => call.result \in Answers \cup {"Error querying Ollama"}

\* ---------------------------------------------------------------- properties of the session
\* C24: fill_all_fields records a response in the answer history only after it
\* was applied to the field: an iteration whose apply step failed (the handler
\* printed "Error processing element") leaves the answer history as it was.
FailedApplyLeavesNoHistory ==
    [][(/\ fill_element
        /\ fill_log'[Len(fill_log')] = "error")
       => answer_history' = answer_history]_vars

\* C25: every label of the answer history maps to a list of at least one
\* entry, so for every field of the page whose label has a history the index
\* max(0, currentIndex - 1) of previous_answer and, below the last entry, the
\* index currentIndex + 1 of next_answer lie within 0..len-1.
HistoryEntriesNonEmpty ==
    /\ \A l \in DOMAIN answer_history : Len(answer_history[l]) >= 1
    /\ \A i \in 1..Len(form) :
          LET label == get_field_label(form[i])
          IN  label \in DOMAIN answer_history =>
                LET h == answer_history[label]
                    ci == CurrentIndex(h, value[i])
                IN  /\ PreviousIndex(ci) \in 0..(Len(h) - 1)
                    /\ ci < Len(h) - 1 => NextIndex(ci) \in 0..(Len(h) - 1)

\* C25 witness: a field displays the second of two stored answers, and
\* another value a field may display is not in the history at all.
HistoryOfTwoAtLastEntry ==
    \E i \in 1..Len(form) :
        LET label == get_field_label(form[i])
        IN  /\ label \in DOMAIN answer_history
            /\ Len(answer_history[label]) = 2
            /\ CurrentIndex(answer_history[label], value[i]) = 1

\* C26: new_application empties the application context and changes nothing
\* else of the session: answer history, configuration in memory and on disk,
\* the page and every field's value, check mark and selection stay as they
\* were, so previous_answer and next_answer still find the earlier answers.
NewApplicationOnlyClearsContext ==
    [][new_application =>
          /\ current_application_context' = <<>>
          /\ answer_history' = answer_history
          /\ config' = config
          /\ config_file' = config_file
          /\ form' = form /\ value' = value /\ active' = active
          /\ checked' = checked /\ selected' = selected]_vars

\* C26 witness: new_application ran on a session with a history of two
\* answers for a field that still displays one of them.
NewApplicationKeptHistory ==
    /\ cmd = "n"
    /\ msg = "context_cleared"
    /\ current_application_context = <<>>
    /\ \E i \in 1..Len(form) :
          LET label == get_field_label(form[i])
          IN  /\ label \in DOMAIN answer_history
              /\ Len(answer_history[label]) = 2
              /\ value[i] = answer_history[label][2]

\* C27: when set_generation_method returns, generation_method is one of the
\* five strategies and config.json holds the same generation_method as the
\* configuration in memory.
GenerationMethodSavedOnReturn ==
    [][set_generation_method =>
          /\ config'.generation_method \in {"greedy", "beam", "top_k", "top_p", "custom"}
          /\ config_file'.generation_method = config'.generation_method]_vars

\* ---------------------------------------------------------------- properties of generation
\* C22: whatever the decoding strategy, a generation never produces more than
\* 32 new tokens; the sampling loop of the custom strategy ends within 32
\* iterations also when the end-of-sequence token is never sampled.
GenerationStopsAtTokenCap ==
    call.fn = "query_model" => call.new_tokens <= max_new_tokens

\* The label ends with "?" once trailing asterisks and whitespace are removed.
IsQuestionLabel(label) ==
    LET cs == Chars(label)
        kept == {k \in 1..Len(cs) : cs[k] \notin Whitespace \cup {"*"}}
    IN  kept # {} /\ cs[CHOOSE k \in kept : \A m \in kept : k >= m] = "?"

\* C23: with the custom strategy, a generation for a field whose label ends
\* with "?" (trailing asterisks and whitespace aside) samples with temperature
\* 1.5, a generation for any other field with temperature 0.9.
QuestionSampledHotter ==
    (/\ call.fn = "query_model"
     /\ call.method = "custom"
     /\ call.next \in {"sample", "done"})
    => call.temperature = IF IsQuestionLabel(call.label) THEN "1.5" ELSE "0.9"
====
